---- MODULE Spec2Model ----
(***************************************************************************)
(* A model of analog_clock.py: the analog clock widget (ClockTest), its    *)
(* animate timer chain, the quiz polling loop (ClockTest.poll), the modal  *)
(* quiz dialog (QuestionWindow) and the coordinate mapper.                 *)
(*                                                                         *)
(* The program is event driven.  ClockTest.__init__ calls animate() or     *)
(* poll() synchronously; poll() blocks in Dialog.wait_window and in the    *)
(* messagebox calls, each of which runs a nested Tk event loop.  While one *)
(* of those loops runs, pending root.after callbacks (animate) and         *)
(* <Configure> events (resize) are dispatched.  Every handler runs to      *)
(* completion on the single UI thread (main() passes use_thread = False),  *)
(* so one action of the model is one handler, together with the code of    *)
(* poll() that runs when the handler makes a nested event loop return.     *)
(*                                                                         *)
(* With useThread = True, poll() runs on a worker thread next to the UI    *)
(* thread; SpecThread models that configuration statement by statement.    *)
(***************************************************************************)
EXTENDS Integers, Sequences, FiniteSets, Bags, TLC

VARIABLES
    demo,            \* kwargs.get("demo")
    visualize,       \* self.visualize
    hour,            \* self.hour
    minute,          \* self.minute
    second,          \* self.second
    pad,             \* self.pad
    T,               \* self.T, the mapper
    pc,              \* where the UI thread is blocked (which event loop runs)
    after,           \* bag of pending root.after(animate) callbacks, by stop target
    correct,         \* poll(): local correct
    wrong,           \* poll(): local wrong
    title,           \* number in the title "Question #n" of the current dialog
    reported,        \* numbers of the "You got K of N correct!" message, <<>> before it
    e1,              \* text of the dialog's Entry widget (<<>> once destroyed)
    still_going,     \* q.still_going
    correct_answer,  \* q.correct_answer
    time_answer,     \* q.time_answer, <<>> while no dialog was made yet
    nAccepted,       \* history: dialogs closed by an accepted submission
    nFlagged,        \* history: of those, dialogs whose correctness flag was set
    showImage,       \* self.showImage
    fluImg,          \* whether self.fluImg was set (Image.open in __init__)
    colors,          \* self.bgcolor, self.timecolor, self.circlecolor
    canvas,          \* the items on self.canvas
    wpc,             \* worker thread (useThread): the statement of poll it is at
    wans,            \* worker thread: poll's local hour_minute_answer
    wacc,            \* worker thread: value loaded by the += or %= it is in
    upc,             \* UI thread: the statement of a running animate callback
    ustop,           \* UI thread: stop_hour_minute of the running callback
    uacc,            \* UI thread: value loaded by the += or %= it is in
    uruns            \* UI thread: animate callbacks run next to the worker

vars == <<demo, visualize, hour, minute, second, pad, T, pc, after,
          correct, wrong, title, reported, e1, still_going, correct_answer,
          time_answer, nAccepted, nFlagged, showImage, fluImg, colors,
          canvas, wpc, wans, wacc, upc, ustop, uacc, uruns>>

clockVars == <<hour, minute, second>>
sizeVars == <<pad, T>>
pollVars == <<correct, wrong, title, reported>>
dialogVars == <<e1, still_going, correct_answer, time_answer>>
histVars == <<nAccepted, nFlagged>>
modeVars == <<demo, visualize>>
imgVars == <<showImage, fluImg, colors>>
threadVars == <<wpc, wans, wacc, upc, ustop, uacc, uruns>>

----------------------------------------------------------------------------
(* Program constants *)

MIN_ACC == 15

(* Bounds of the model *)

\* accepted submissions the model follows without the animation; in the
\* dialog after the last of them the user can only cancel
MaxRounds == 3
\* the same with the animation (visualize)
MaxVisRounds == 1
\* longest text typed into the entry when validate is checked on its own
MaxLen == 5
\* world rectangles of the mapper have corners in -WorldMax..WorldMax
WorldMax == 1
\* viewport rectangles have corners at 0, 100, ..., 100 * ViewMax
ViewMax == 3
\* the ovals of this many redraw passes are counted on the canvas; the
\* ovals of further passes leave the counts where they are
MaxLayers == 2
\* animate callbacks the UI thread runs while poll is on the worker thread
MaxTimerRuns == 2

\* stop_hour_minute = None
NoStop == <<>>

----------------------------------------------------------------------------
(* Exact arithmetic for the mapper: a number is a fraction <<n, d>>, d > 0, *)
(* kept in lowest terms.  The floats of the source are modelled without    *)
(* rounding.                                                               *)

RECURSIVE Gcd(_, _)
Gcd(a, b) == IF b = 0 THEN a ELSE Gcd(b, a % b)

Abs(a) == IF a < 0 THEN -a ELSE a

Norm(n, d) ==
    LET g == Gcd(Abs(n), Abs(d))
        s == IF d < 0 THEN -1 ELSE 1
    IN  <<(s * n) \div g, (s * d) \div g>>

Q(n) == <<n, 1>>
QAdd(a, b) == Norm(a[1] * b[2] + b[1] * a[2], a[2] * b[2])
QNeg(a) == <<-a[1], a[2]>>
QSub(a, b) == QAdd(a, QNeg(b))
QMul(a, b) == Norm(a[1] * b[1], a[2] * b[2])
QDiv(a, b) == Norm(a[1] * b[2], a[2] * b[1])
QLe(a, b) == a[1] * b[2] <= b[1] * a[2]
QLt(a, b) == a[1] * b[2] < b[1] * a[2]
QMin(a, b) == IF QLe(a, b) THEN a ELSE b
QHalf == <<1, 2>>

----------------------------------------------------------------------------
(* class mapper *)

\* mapper.__init__(world, viewport), both with nonzero width and height
\* (a zero one raises ZeroDivisionError at lines 61-62)
mapper(world, viewport) ==
    LET x_min == world[1]
        y_min == world[2]
        x_max == world[3]
        y_max == world[4]
        X_min == viewport[1]
        Y_min == viewport[2]
        X_max == viewport[3]
        Y_max == viewport[4]
        f_x == QDiv(QSub(X_max, X_min), QSub(x_max, x_min))
        f_y == QDiv(QSub(Y_max, Y_min), QSub(y_max, y_min))
        f == QMin(f_x, f_y)
        x_c == QMul(QHalf, QAdd(x_min, x_max))
        y_c == QMul(QHalf, QAdd(y_min, y_max))
        X_c == QMul(QHalf, QAdd(X_min, X_max))
        Y_c == QMul(QHalf, QAdd(Y_min, Y_max))
    IN  [world |-> world, viewport |-> viewport, f |-> f,
         c_1 |-> QSub(X_c, QMul(f, x_c)),
         c_2 |-> QSub(Y_c, QMul(f, y_c))]

\* mapper.__windowToViewport(x, y)
windowToViewport1(t, x, y) ==
    <<QAdd(QMul(t.f, x), t.c_1), QAdd(QMul(t.f, QNeg(y)), t.c_2)>>

\* mapper.windowToViewport(x1, y1, x2, y2)
windowToViewport(t, x1, y1, x2, y2) ==
    <<windowToViewport1(t, x1, y1), windowToViewport1(t, x2, y2)>>

\* self.world of ClockTest
ClockWorld == <<Q(-1), Q(-1), Q(1), Q(1)>>

\* the viewport ClockTest.__init__ and resize build from a pad and a size
PadViewport(p, w, h) == <<p, p, QSub(Q(w), p), QSub(Q(h), p)>>

----------------------------------------------------------------------------
(* The clock face: setColors, paintcircle, painthms, redraw.  The canvas   *)
(* is a record of the items on it: background (the rectangle or the image  *)
(* that resize creates), ticks (the ovals of the loop of redraw), centre   *)
(* (the ovals of paintcircle(0, 0)) and hands (the lines tagged self._ALL, *)
(* in the order they were created).  An angle is kept as the fraction it   *)
(* is of pi, and a hand by its angle and length, before the mapper.        *)

\* a canvas without items: a new Canvas, or one after delete(ALL)
EmptyCanvas == [background |-> 0, ticks |-> 0, centre |-> 0, hands |-> <<>>]

\* ClockTest.setColors with self.showImage = img
setColors(img) ==
    IF img
    THEN [bgcolor |-> "antique white", timecolor |-> "dark orange",
          circlecolor |-> "dark green"]
    ELSE [bgcolor |-> "#000000", timecolor |-> "#ffffff",
          circlecolor |-> "#808080"]

\* ClockTest.paintcircle on canvas c: one more oval, a tick mark
\* (kind = "ticks") or the circle at (0, 0) (kind = "centre")
paintcircle(c, kind) ==
    LET most == IF kind = "ticks" THEN 12 * MaxLayers ELSE MaxLayers
    IN  [c EXCEPT ![kind] = IF @ < most THEN @ + 1 ELSE @]

\* ClockTest.painthms, mutated: the old hands are not deleted
painthms_no_delete(c, h, m, s, easy) ==
    LET hour_offset == IF easy THEN 0 ELSE m
        second_offset == IF easy THEN 0 ELSE s
        hour_angle ==
            QSub(<<1, 2>>, QMul(<<1, 6>>,
                 QAdd(Q(h), QDiv(Q(hour_offset), Q(60)))))
        minute_angle ==
            QSub(<<1, 2>>, QMul(<<1, 30>>,
                 QAdd(Q(m), QDiv(Q(second_offset), Q(60)))))
    IN  [c EXCEPT !.hands = @ \o
            << [angle |-> hour_angle, length |-> <<7, 10>>],
               [angle |-> minute_angle, length |-> <<9, 10>>] >>]

\* ClockTest.painthms, mutated: the hour hand turns pi / 30 an hour
painthms_hour_step(c, h, m, s, easy) ==
    LET hour_offset == IF easy THEN 0 ELSE m
        second_offset == IF easy THEN 0 ELSE s
        deleted == [c EXCEPT !.hands = <<>>]
        hour_angle ==
            QSub(<<1, 2>>, QMul(<<1, 30>>,
                 QAdd(Q(h), QDiv(Q(hour_offset), Q(60)))))
        minute_angle ==
            QSub(<<1, 2>>, QMul(<<1, 30>>,
                 QAdd(Q(m), QDiv(Q(second_offset), Q(60)))))
    IN  [deleted EXCEPT !.hands = @ \o
            << [angle |-> hour_angle, length |-> <<7, 10>>],
               [angle |-> minute_angle, length |-> <<9, 10>>] >>]

\* ClockTest.painthms on canvas c with hour = h, minute = m, second = s
\* and kwargs.get('easy') = easy: the items tagged self._ALL are deleted,
\* then the hour hand and the minute hand are created with that tag
painthms(c, h, m, s, easy) ==
    LET hour_offset == IF easy THEN 0 ELSE m
        second_offset == IF easy THEN 0 ELSE s
        deleted == [c EXCEPT !.hands = <<>>]
        \* pi / 2 - pi / 6 * (hour + hour_offset / 60.0)
        hour_angle ==
            QSub(<<1, 2>>, QMul(<<1, 6>>,
                 QAdd(Q(h), QDiv(Q(hour_offset), Q(60)))))
        \* pi / 2 - pi / 30 * (minute + second_offset / 60.0)
        minute_angle ==
            QSub(<<1, 2>>, QMul(<<1, 30>>,
                 QAdd(Q(m), QDiv(Q(second_offset), Q(60)))))
    IN  [deleted EXCEPT !.hands = @ \o
            << [angle |-> hour_angle, length |-> <<7, 10>>],
               [angle |-> minute_angle, length |-> <<9, 10>>] >>]

\* the loop of redraw, lines 219-222: paintcircle for i in range(n)
RECURSIVE paintticks(_, _)
paintticks(c, n) ==
    IF n = 0 THEN c ELSE paintticks(paintcircle(c, "ticks"), n - 1)

\* ClockTest.redraw() on canvas c, with the ClockState (h, m, s) and
\* self.showImage = img; no caller passes kwargs, so easy is unset
redraw(c, h, m, s, img) ==
    LET handed == painthms(paintticks(c, 12), h, m, s, FALSE)
    IN  IF ~img THEN paintcircle(handed, "centre") ELSE handed

\* the canvas after ClockTest.resize, lines 176 and 185-192: all items are
\* deleted, the background is created and the clock is redrawn.  With
\* showImage set and self.fluImg never set, line 186 raises
\* AttributeError: Tk reports it and goes on, the canvas stays empty
resize_canvas(h, m, s, img, flu) ==
    IF img /\ ~flu THEN EmptyCanvas
    ELSE redraw([EmptyCanvas EXCEPT !.background = 1], h, m, s, img)

----------------------------------------------------------------------------
(* QuestionWindow.validate: the text of the entry is a sequence of         *)
(* one-character strings.  re is Python's re module, which the source      *)
(* reaches through "from tkinter import *".                                *)

Digit == {"0", "1", "2", "3", "4", "5", "6", "7", "8", "9"}

\* int() of one digit character
DigitVal(c) ==
    CASE c = "0" -> 0 [] c = "1" -> 1 [] c = "2" -> 2 [] c = "3" -> 3
      [] c = "4" -> 4 [] c = "5" -> 5 [] c = "6" -> 6 [] c = "7" -> 7
      [] c = "8" -> 8 [] c = "9" -> 9

\* int() of a nonempty sequence of digit characters
RECURSIVE IntOf(_)
IntOf(ds) ==
    IF Len(ds) = 1 THEN DigitVal(ds[1])
    ELSE 10 * IntOf(SubSeq(ds, 1, Len(ds) - 1)) + DigitVal(ds[Len(ds)])

\* $ of a Python pattern without re.MULTILINE: the end of the string, or
\* the place just before a newline that ends the string
AtDollar(s, p) ==
    \/ p = Len(s)
    \/ p = Len(s) - 1 /\ s[Len(s)] = "\n"

\* Whether (^[012]?\d)\D?([0-5]\d)$ matches s with [012]? taking hl - 1
\* characters and \D? taking sl characters
MatchesWith(s, hl, sl) ==
    /\ Len(s) >= hl + sl + 2
    /\ hl = 2 => s[1] \in {"0", "1", "2"}
    /\ s[hl] \in Digit
    /\ sl = 1 => s[hl + 1] \notin Digit
    /\ s[hl + sl + 1] \in {"0", "1", "2", "3", "4", "5"}
    /\ s[hl + sl + 2] \in Digit
    /\ AtDollar(s, hl + sl + 2)

\* the order in which the backtracking matcher tries the two greedy
\* optional items: each first with its character, then without
TryOrder == <<<<2, 1>>, <<2, 0>>, <<1, 1>>, <<1, 0>>>>

\* re.search(regex, s): the groups (1, 2) of the first way that matches,
\* or <<>> for None
re_search(s) ==
    LET ways == {i \in 1..Len(TryOrder) :
                    MatchesWith(s, TryOrder[i][1], TryOrder[i][2])}
    IN  IF ways = {} THEN <<>>
        ELSE LET i == CHOOSE k \in ways : \A j \in ways : k <= j
                 hl == TryOrder[i][1]
                 sl == TryOrder[i][2]
             IN  <<SubSeq(s, 1, hl), SubSeq(s, hl + sl + 1, hl + sl + 2)>>

\* QuestionWindow.validate, mutated: the correctness flag is set before
\* the range check
validate_flag_first(s, ta, ca) ==
    LET match == re_search(s)
    IN  IF match = <<>> THEN [ret |-> FALSE, correct_answer |-> ca]
        ELSE LET h == IntOf(match[1])
                 m == IntOf(match[2])
                 flag == (<<h % 12, m>> = ta)
             IN  IF (h = 24 /\ m > 0) \/ h > 24
                 THEN [ret |-> FALSE, correct_answer |-> flag]
                 ELSE [ret |-> TRUE, correct_answer |-> flag]

\* QuestionWindow.validate, mutated: the hour is compared without % 12
validate_no_mod(s, ta, ca) ==
    LET match == re_search(s)
    IN  IF match = <<>> THEN [ret |-> FALSE, correct_answer |-> ca]
        ELSE LET h == IntOf(match[1])
                 m == IntOf(match[2])
             IN  IF (h = 24 /\ m > 0) \/ h > 24
                 THEN [ret |-> FALSE, correct_answer |-> ca]
                 ELSE [ret |-> TRUE, correct_answer |-> (<<h, m>> = ta)]

\* QuestionWindow.validate with the entry text s, self.time_answer ta and
\* self.correct_answer ca: the value returned and the new correct_answer
validate(s, ta, ca) ==
    LET match == re_search(s)
    IN  IF match = <<>> THEN [ret |-> FALSE, correct_answer |-> ca]
        ELSE LET h == IntOf(match[1])
                 m == IntOf(match[2])
             IN  IF (h = 24 /\ m > 0) \/ h > 24
                 THEN [ret |-> FALSE, correct_answer |-> ca]
                 ELSE [ret |-> TRUE,
                       correct_answer |-> (<<h % 12, m>> = ta)]

----------------------------------------------------------------------------
(* ClockTest.animate *)

\* the body of animate, mutated: the hour is not wrapped
animate_no_wrap(h, m, stop) ==
    IF stop # NoStop /\ stop = <<h, m>>
    THEN [hour |-> h, minute |-> m, again |-> FALSE]
    ELSE IF m + 1 = 60
         THEN [hour |-> h + 1, minute |-> 0, again |-> TRUE]
         ELSE [hour |-> h, minute |-> m + 1, again |-> TRUE]

\* the body of animate on ClockState (h, m) with stop_hour_minute = stop:
\* the new ClockState, and whether root.after schedules animate again
animate(h, m, stop) ==
    IF stop # NoStop /\ stop = <<h, m>>
    THEN [hour |-> h, minute |-> m, again |-> FALSE]
    ELSE IF m + 1 = 60
         THEN [hour |-> (h + 1) % 12, minute |-> 0, again |-> TRUE]
         ELSE [hour |-> h, minute |-> m + 1, again |-> TRUE]

----------------------------------------------------------------------------
(* ClockTest.poll *)

\* random.randint(0, 11)
Hours == 0..11

\* the hours the model draws from Hours: the first and the last
PickHours == {h \in Hours : h \in {0, 11}}

\* line 298, mutated: the upper end of the range is int(60/MIN_ACC)
Minutes_to_sixty == {k * MIN_ACC : k \in 0..(60 \div MIN_ACC)}

\* random.randint(0, int(60/MIN_ACC)-1) * MIN_ACC
Minutes == {k * MIN_ACC : k \in 0..((60 \div MIN_ACC) - 1)}

\* lines 308-313 of poll, mutated: the round is scored before still_going
\* is looked at
poll_tally_score_first(sg, ca, c, w) ==
    IF ca THEN [brk |-> ~sg, correct |-> c + 1, wrong |-> w]
    ELSE [brk |-> ~sg, correct |-> c, wrong |-> w + 1]

\* lines 308-313 of poll, mutated: a wrong answer is not counted
poll_tally_no_wrong(sg, ca, c, w) ==
    IF ~sg THEN [brk |-> TRUE, correct |-> c, wrong |-> w]
    ELSE IF ca THEN [brk |-> FALSE, correct |-> c + 1, wrong |-> w]
    ELSE [brk |-> FALSE, correct |-> c, wrong |-> w]

\* lines 308-313 of poll, after the dialog q has closed with
\* q.still_going = sg and q.correct_answer = ca: whether the loop breaks,
\* and the new correct and wrong
poll_tally(sg, ca, c, w) ==
    IF ~sg THEN [brk |-> TRUE, correct |-> c, wrong |-> w]
    ELSE IF ca THEN [brk |-> FALSE, correct |-> c + 1, wrong |-> w]
    ELSE [brk |-> FALSE, correct |-> c, wrong |-> w + 1]

\* lines 297-307 of poll, one pass of the loop up to the dialog's
\* wait_window, with H and M the two random numbers and c, w the tally:
\* the time is set, shown (redraw) or animated towards, and the dialog
\* opens with the class defaults of QuestionWindow and an empty entry
OpenRound(H, M, c, w) ==
    LET answer == <<H, M>>
        r == animate(H, 0, answer)
    IN  /\ IF visualize
           THEN /\ hour' = r.hour
                /\ minute' = r.minute
                /\ after' = IF r.again THEN after (+) SetToBag({answer})
                            ELSE after
           ELSE /\ hour' = H
                /\ minute' = M
                /\ after' = after
        /\ canvas' = redraw(canvas, hour', minute', second, showImage)
        /\ title' = c + w + 1
        /\ time_answer' = answer
        /\ e1' = <<>>
        /\ still_going' = TRUE
        /\ correct_answer' = FALSE
        /\ correct' = c
        /\ wrong' = w
        /\ pc' = "dialog"
        /\ UNCHANGED <<second, reported>>

\* lines 314: the loop was left, the score message box is up
ShowScore(c, w) ==
    /\ reported' = <<c, c + w>>
    /\ correct' = c
    /\ wrong' = w
    /\ pc' = "score"
    /\ e1' = <<>>
    /\ UNCHANGED <<clockVars, after, title, time_answer, canvas>>

\* poll from the return of wait_window (line 307) on, the dialog having
\* closed with q.still_going = sg and q.correct_answer = ca
AfterDialog(sg, ca) ==
    LET t == poll_tally(sg, ca, correct, wrong)
    IN  IF t.brk
        THEN /\ ShowScore(t.correct, t.wrong)
             /\ still_going' = sg
             /\ correct_answer' = ca
        ELSE \E H \in PickHours, M \in Minutes :
                OpenRound(H, M, t.correct, t.wrong)

----------------------------------------------------------------------------
(* The state machine *)

\* canvas sizes a <Configure> event reports, (winfo_width, winfo_height):
\* the size main() asks for and a wider one
CanvasSizes == {<<400, 400>>, <<800, 400>>}

\* with the animation of poll the model keeps the window at its first size
ResizeSizes == IF visualize THEN {<<400, 400>>} ELSE CanvasSizes

\* texts the user of the quiz types into the entry: two that are right for
\* an expected hour 0, one that is no time and one with hour 24 and minutes
Entries ==
    { <<"1", "2", ":", "1", "5">>, <<"2", "4", ":", "0", "0">>,
      <<"9">>, <<"2", "4", ":", "1", "5">> }

\* the accepted submissions the model follows in this mode
RoundCap == IF visualize THEN MaxVisRounds ELSE MaxRounds

\* the nested event loops of wait_window and of the message boxes, and
\* root.mainloop
EventLoop == {"mainloop", "dialog", "warning", "apply", "score"}

\* ClockTest.__init__, lines 132-135, 141 and 148-152, with img the value
\* of hasPIL and os.path.exists(self.imgPath): the image is opened when it
\* is there, the colours are set and the canvas is made
StartsWithImage(img) ==
    /\ showImage = img
    /\ fluImg = img
    /\ colors = setColors(img)
    /\ canvas = EmptyCanvas

\* useThread false: poll runs on the UI thread, there is no worker and no
\* animate callback is ever left between two of its statements
NoWorker ==
    /\ wpc = "none"
    /\ wans = NoStop
    /\ wacc = 0
    /\ upc = "idle"
    /\ ustop = NoStop
    /\ uacc = 0
    /\ uruns = 0

\* ClockTest.__init__ up to line 158, with w = h = 400 and useThread false
\* as main() passes, run where ./images/fluminense.png is not there
Init ==
    /\ demo \in BOOLEAN
    /\ visualize \in BOOLEAN
    /\ demo => ~visualize
    /\ hour = 0
    /\ minute = 0
    /\ second = 0
    /\ pad = <<25, 1>>
    /\ T = mapper(ClockWorld, PadViewport(<<25, 1>>, 400, 400))
    /\ pc = "init"
    /\ after = EmptyBag
    /\ correct = 0
    /\ wrong = 0
    /\ title = 0
    /\ reported = <<>>
    /\ e1 = <<>>
    /\ still_going = TRUE
    /\ correct_answer = FALSE
    /\ time_answer = NoStop
    /\ nAccepted = 0
    /\ nFlagged = 0
    /\ StartsWithImage(FALSE)
    /\ NoWorker

\* ClockTest.__init__, lines 160-162: demo, the first animate(delay=50)
StartDemo ==
    /\ pc = "init"
    /\ demo
    /\ LET r == animate(hour, minute, NoStop)
       IN  /\ hour' = r.hour
           /\ minute' = r.minute
           /\ after' = IF r.again THEN after (+) SetToBag({NoStop}) ELSE after
    /\ canvas' = redraw(canvas, hour', minute', second, showImage)
    /\ pc' = "mainloop"
    /\ UNCHANGED <<second, sizeVars, pollVars, dialogVars, histVars, modeVars,
                   imgVars, threadVars>>

\* ClockTest.__init__, lines 164-170 with useThread false: poll() up to
\* the first dialog
StartPoll ==
    /\ pc = "init"
    /\ ~demo
    /\ \E H \in PickHours, M \in Minutes : OpenRound(H, M, 0, 0)
    /\ UNCHANGED <<sizeVars, histVars, modeVars, imgVars, threadVars>>

\* a root.after callback: animate with the stop target it was scheduled with
AnimateTimer ==
    /\ pc \in EventLoop
    /\ \E stop \in BagToSet(after) :
          LET r == animate(hour, minute, stop)
          IN  /\ hour' = r.hour
              /\ minute' = r.minute
              /\ after' = IF r.again THEN after
                          ELSE after (-) SetToBag({stop})
    /\ canvas' = redraw(canvas, hour', minute', second, showImage)
    /\ UNCHANGED <<second, sizeVars, pc, pollVars, dialogVars, histVars,
                   modeVars, imgVars, threadVars>>

\* ClockTest.resize with winfo_width, winfo_height = sz and
\* self.showImage = img
resize(sz, img) ==
    LET imgSize == IF sz[1] <= sz[2] THEN sz[1] ELSE sz[2]
        p == Norm(imgSize, 16)
    IN  /\ pad' = p
        /\ T' = mapper(ClockWorld, PadViewport(p, sz[1], sz[2]))
        /\ canvas' = resize_canvas(hour, minute, second, img, fluImg)

\* ClockTest.resize on a <Configure> event
Resize ==
    /\ pc \in EventLoop
    /\ \E sz \in ResizeSizes : resize(sz, showImage)
    /\ UNCHANGED <<clockVars, pc, after, pollVars, dialogVars, histVars,
                   modeVars, imgVars, threadVars>>

\* winfo_width, winfo_height of the canvas: the size the viewport of self.T
\* was made for
winfo_size ==
    << QAdd(T.viewport[1], T.viewport[3])[1],
       QAdd(T.viewport[2], T.viewport[4])[1] >>

\* ClockTest.toggleImage on <KeyPress-i>, which reaches the root window
\* while no dialog or message box holds the grab; avail is the value of
\* hasPIL and os.path.exists(self.imgPath) at line 209
ToggleImage ==
    /\ pc = "mainloop"
    /\ \E avail \in BOOLEAN :
          IF avail
          THEN /\ showImage' = ~showImage
               /\ colors' = setColors(~showImage)
               /\ resize(winfo_size, ~showImage)
               /\ UNCHANGED fluImg
          ELSE UNCHANGED <<imgVars, sizeVars, canvas>>
    /\ UNCHANGED <<clockVars, pc, after, pollVars, dialogVars, histVars,
                   modeVars, threadVars>>

\* QuestionWindow.ok with the text s in the entry, up to its message box:
\* showwarning on a rejected text, apply()'s showinfo or showerror on an
\* accepted one
Submit(s) ==
    /\ pc = "dialog"
    /\ e1' = s
    /\ LET v == validate(s, time_answer, correct_answer)
       IN  /\ correct_answer' = v.correct_answer
           /\ pc' = IF v.ret THEN "apply" ELSE "warning"
    /\ UNCHANGED <<clockVars, sizeVars, after, pollVars, still_going,
                   time_answer, histVars, modeVars, imgVars, canvas,
                   threadVars>>

\* the user types one of Entries and presses OK or Return
DialogOk ==
    /\ correct + wrong < RoundCap
    /\ \E s \in Entries : Submit(s)

\* QuestionWindow.ok, lines 479-481, once the warning is dismissed
DismissWarning ==
    /\ pc = "warning"
    /\ pc' = "dialog"
    /\ UNCHANGED <<clockVars, sizeVars, after, pollVars, dialogVars, histVars,
                   modeVars, imgVars, canvas, threadVars>>

\* QuestionWindow.ok, mutated: after apply() it ends with self.cancel(), as
\* Dialog.ok does
DismissApply_through_cancel ==
    /\ pc = "apply"
    /\ nAccepted' = nAccepted + 1
    /\ nFlagged' = IF correct_answer THEN nFlagged + 1 ELSE nFlagged
    /\ AfterDialog(FALSE, correct_answer)
    /\ UNCHANGED <<sizeVars, modeVars, imgVars, threadVars>>

\* QuestionWindow.ok, lines 487-488, once apply()'s message box is
\* dismissed: the dialog is destroyed, wait_window returns and poll goes on
DismissApply ==
    /\ pc = "apply"
    /\ nAccepted' = nAccepted + 1
    /\ nFlagged' = IF correct_answer THEN nFlagged + 1 ELSE nFlagged
    /\ AfterDialog(still_going, correct_answer)
    /\ UNCHANGED <<sizeVars, modeVars, imgVars, threadVars>>

\* QuestionWindow.cancel (Exit, Escape, WM_DELETE_WINDOW): the dialog is
\* destroyed, wait_window returns and poll goes on
DialogCancel ==
    /\ pc = "dialog"
    /\ AfterDialog(FALSE, correct_answer)
    /\ UNCHANGED <<sizeVars, histVars, modeVars, imgVars, threadVars>>

\* poll, line 315, once the score message is dismissed: root.destroy(),
\* which also drops the pending after callbacks and the canvas
DismissScore ==
    /\ pc = "score"
    /\ pc' = "destroyed"
    /\ after' = EmptyBag
    /\ canvas' = EmptyCanvas
    /\ UNCHANGED <<clockVars, sizeVars, pollVars, dialogVars, histVars,
                   modeVars, imgVars, threadVars>>

\* line 151: <Escape> on the root window, which has the keyboard in demo
\* mode only (the dialog and the message boxes grab it)
RootEscape ==
    /\ pc = "mainloop"
    /\ pc' = "destroyed"
    /\ after' = EmptyBag
    /\ canvas' = EmptyCanvas
    /\ UNCHANGED <<clockVars, sizeVars, pollVars, dialogVars, histVars,
                   modeVars, imgVars, threadVars>>

Next ==
    \/ StartDemo
    \/ StartPoll
    \/ AnimateTimer
    \/ Resize
    \/ ToggleImage
    \/ DialogOk
    \/ DismissWarning
    \/ DismissApply
    \/ DialogCancel
    \/ DismissScore
    \/ RootEscape

Spec == Init /\ [][Next]_vars

----------------------------------------------------------------------------
(* QuestionWindow.validate on its own: the first dialog of a quiz without  *)
(* the animation is open, and any text over Alphabet is submitted.         *)

Alphabet == {"0", "1", "2", "3", "4", "5", "9", ":", "\n"}

Texts == UNION {[1..k -> Alphabet] : k \in 0..MaxLen}

ValidateAnswers == {<<0, 0>>, <<3, 15>>}

InitValidate ==
    /\ demo = FALSE
    /\ visualize = FALSE
    /\ time_answer \in ValidateAnswers
    /\ hour = time_answer[1]
    /\ minute = time_answer[2]
    /\ second = 0
    /\ pad = <<25, 1>>
    /\ T = mapper(ClockWorld, PadViewport(<<25, 1>>, 400, 400))
    /\ pc = "dialog"
    /\ after = EmptyBag
    /\ correct = 0
    /\ wrong = 0
    /\ title = 1
    /\ reported = <<>>
    /\ e1 = <<>>
    /\ still_going = TRUE
    /\ correct_answer = FALSE
    /\ nAccepted = 0
    /\ nFlagged = 0
    /\ showImage = FALSE
    /\ fluImg = FALSE
    /\ colors = setColors(FALSE)
    /\ canvas = redraw(EmptyCanvas, hour, minute, second, FALSE)
    /\ NoWorker

\* the first submission of the dialog, with any text
FirstSubmit ==
    /\ e1 = <<>>
    /\ \E s \in Texts : Submit(s)

NextValidate ==
    \/ FirstSubmit
    \/ DismissWarning

SpecValidate == InitValidate /\ [][NextValidate]_vars

----------------------------------------------------------------------------
(* The mapper on its own: mappers are made for any world and viewport      *)
(* rectangle of positive width and height.                                 *)

WorldCoords == {Q(c) : c \in (-WorldMax)..WorldMax}
ViewCoords == {Q(100 * c) : c \in 0..ViewMax}

Rects(coords) ==
    {r \in coords \X coords \X coords \X coords :
        QLt(r[1], r[3]) /\ QLt(r[2], r[4])}

InitMapper ==
    /\ demo = TRUE
    /\ visualize = FALSE
    /\ hour = 0
    /\ minute = 0
    /\ second = 0
    /\ pad = <<25, 1>>
    /\ T \in {mapper(w, v) : w \in Rects(WorldCoords), v \in Rects(ViewCoords)}
    /\ pc = "init"
    /\ after = EmptyBag
    /\ correct = 0
    /\ wrong = 0
    /\ title = 0
    /\ reported = <<>>
    /\ e1 = <<>>
    /\ still_going = TRUE
    /\ correct_answer = FALSE
    /\ time_answer = NoStop
    /\ nAccepted = 0
    /\ nFlagged = 0
    /\ StartsWithImage(FALSE)
    /\ NoWorker

\* mapper(world, viewport) replaces self.T, as in resize
NewMapper ==
    /\ \E w \in Rects(WorldCoords), v \in Rects(ViewCoords) :
          T' = mapper(w, v)
    /\ UNCHANGED <<clockVars, pad, pc, after, pollVars, dialogVars, histVars,
                   modeVars, imgVars, canvas, threadVars>>

NextMapper == NewMapper

SpecMapper == InitMapper /\ [][NextMapper]_vars

----------------------------------------------------------------------------
(* The canvas: the program as in Spec, in demo mode and as a quiz without  *)
(* the animation, started with or without the background image in place.   *)

InitCanvas ==
    /\ demo \in BOOLEAN
    /\ visualize = FALSE
    /\ hour = 0
    /\ minute = 0
    /\ second = 0
    /\ pad = <<25, 1>>
    /\ T = mapper(ClockWorld, PadViewport(<<25, 1>>, 400, 400))
    /\ pc = "init"
    /\ after = EmptyBag
    /\ correct = 0
    /\ wrong = 0
    /\ title = 0
    /\ reported = <<>>
    /\ e1 = <<>>
    /\ still_going = TRUE
    /\ correct_answer = FALSE
    /\ time_answer = NoStop
    /\ nAccepted = 0
    /\ nFlagged = 0
    /\ \E img \in BOOLEAN : StartsWithImage(img)
    /\ NoWorker

SpecCanvas == InitCanvas /\ [][Next]_vars

----------------------------------------------------------------------------
(* The question of a round: poll as in Spec, with the first round drawn    *)
(* from all of Hours.  With the animation the first round only is          *)
(* followed: there every answer is refused or the dialog is cancelled.     *)

\* the pairs of random numbers lines 297-298 can give
QuestionDraws == Hours \X Minutes

\* ClockTest.__init__, lines 164-170 with useThread false: poll() up to
\* the first dialog, with any numbers lines 297-298 can give
StartQuestion ==
    /\ pc = "init"
    /\ \E d \in QuestionDraws : OpenRound(d[1], d[2], 0, 0)
    /\ UNCHANGED <<sizeVars, histVars, modeVars, imgVars, threadVars>>

\* QuestionWindow.ok in a quiz without the animation
QuestionOk ==
    /\ ~visualize
    /\ DialogOk

\* QuestionWindow.ok with a text that is no time, in a quiz with the
\* animation
QuestionRefused ==
    /\ visualize
    /\ \E s \in {t \in Entries : ~validate(t, time_answer, FALSE).ret} :
          Submit(s)

InitQuestion ==
    /\ Init
    /\ ~demo

NextQuestion ==
    \/ StartQuestion
    \/ AnimateTimer
    \/ Resize
    \/ QuestionOk
    \/ QuestionRefused
    \/ DismissWarning
    \/ DismissApply
    \/ DialogCancel
    \/ DismissScore

SpecQuestion == InitQuestion /\ [][NextQuestion]_vars

----------------------------------------------------------------------------
(* painthms on its own: the hands are drawn for any ClockState, with and   *)
(* without the keyword easy.                                               *)

\* values of self.second; the program itself leaves it at 0
HandSeconds == {0, 30, 59}

InitHands ==
    /\ demo = TRUE
    /\ visualize = FALSE
    /\ hour \in Hours
    /\ minute \in 0..59
    /\ second \in HandSeconds
    /\ pad = <<25, 1>>
    /\ T = mapper(ClockWorld, PadViewport(<<25, 1>>, 400, 400))
    /\ pc = "mainloop"
    /\ after = EmptyBag
    /\ correct = 0
    /\ wrong = 0
    /\ title = 0
    /\ reported = <<>>
    /\ e1 = <<>>
    /\ still_going = TRUE
    /\ correct_answer = FALSE
    /\ time_answer = NoStop
    /\ nAccepted = 0
    /\ nFlagged = 0
    /\ StartsWithImage(FALSE)
    /\ NoWorker

\* self.painthms()
PaintSmooth ==
    /\ canvas' = painthms(canvas, hour, minute, second, FALSE)
    /\ UNCHANGED <<clockVars, sizeVars, pc, after, pollVars, dialogVars,
                   histVars, modeVars, imgVars, threadVars>>

\* self.painthms(easy=True)
PaintEasy ==
    /\ canvas' = painthms(canvas, hour, minute, second, TRUE)
    /\ UNCHANGED <<clockVars, sizeVars, pc, after, pollVars, dialogVars,
                   histVars, modeVars, imgVars, threadVars>>

NextHands ==
    \/ PaintSmooth
    \/ PaintEasy

SpecHands == InitHands /\ [][NextHands]_vars

----------------------------------------------------------------------------
(* useThread = True: __init__ starts poll on a worker thread (lines        *)
(* 165-168) and returns, and the UI thread runs root.mainloop().  The      *)
(* statements of the two threads interleave; a += or %= on an attribute is *)
(* a load followed by a store.  A Tk call of the worker (canvas items,     *)
(* root.after, the dialog, the message box) is carried out by the UI       *)
(* thread between two of its handlers, while the worker waits.  wpc is a   *)
(* pair: the line the worker is at and, inside redraw, how many of its     *)
(* four groups of Tk calls are done.                                       *)

\* the statements of animate between its entry and its redraw, lines
\* 279-287, run by either thread at loc with the loaded value acc, the
\* target stop and the ClockState (h, m): the next location, the loaded
\* value and the ClockState after one statement
animate_stmt(loc, acc, stop, h, m) ==
    CASE loc = "a280" ->
            [loc |-> IF stop # NoStop /\ stop = <<h, m>> THEN "a281"
                     ELSE "a283",
             acc |-> acc, hour |-> h, minute |-> m]
      [] loc = "a283" ->
            [loc |-> "a283s", acc |-> m, hour |-> h, minute |-> m]
      [] loc = "a283s" ->
            [loc |-> "a284", acc |-> 0, hour |-> h, minute |-> acc + 1]
      [] loc = "a284" ->
            [loc |-> IF m = 60 THEN "a285" ELSE "a288",
             acc |-> acc, hour |-> h, minute |-> m]
      [] loc = "a285" ->
            [loc |-> "a286", acc |-> acc, hour |-> h, minute |-> 0]
      [] loc = "a286" ->
            [loc |-> "a286s", acc |-> h, hour |-> h, minute |-> m]
      [] loc = "a286s" ->
            [loc |-> "a287", acc |-> 0, hour |-> acc + 1, minute |-> m]
      [] loc = "a287" ->
            [loc |-> "a287s", acc |-> h, hour |-> h, minute |-> m]
      [] loc = "a287s" ->
            [loc |-> "a288", acc |-> 0, hour |-> acc % 12, minute |-> m]

\* the locations of animate_stmt
AnimateStmts ==
    {"a280", "a283", "a283s", "a284", "a285", "a286", "a286s", "a287",
     "a287s"}

\* the lines at which a thread calls redraw, and what follows each: the
\* return of animate at its target, root.after, and the dialog of poll
AfterRedraw(line) ==
    CASE line = "a281" -> "l305"
      [] line = "a288" -> "a289"
      [] line = "l304" -> "l305"

\* texts typed into the dialog when poll runs on the worker: a time and
\* a text that is none
ThreadEntries == {s \in Entries : Len(s) = 1 \/ s[1] = "1"}

\* __init__ with useThread = True has returned: the worker is at the top
\* of the loop of poll, the UI thread is in root.mainloop()
InitThread ==
    /\ demo = FALSE
    /\ visualize \in BOOLEAN
    /\ hour = 0
    /\ minute = 0
    /\ second = 0
    /\ pad = <<25, 1>>
    /\ T = mapper(ClockWorld, PadViewport(<<25, 1>>, 400, 400))
    /\ pc = "mainloop"
    /\ after = EmptyBag
    /\ correct = 0
    /\ wrong = 0
    /\ title = 0
    /\ reported = <<>>
    /\ e1 = <<>>
    /\ still_going = TRUE
    /\ correct_answer = FALSE
    /\ time_answer = NoStop
    /\ nAccepted = 0
    /\ nFlagged = 0
    /\ StartsWithImage(FALSE)
    /\ wpc = <<"l297", 0>>
    /\ wans = NoStop
    /\ wacc = 0
    /\ upc = "idle"
    /\ ustop = NoStop
    /\ uacc = 0
    /\ uruns = 0

\* the UI thread is in an event loop and in no handler: it can start one,
\* or carry out a Tk call of the worker
UiIdle == pc \in EventLoop /\ upc = "idle"

\* poll on the worker, lines 297-301: the two random numbers, the answer
\* and, with visualize, the minute set to 0
WorkerSetup ==
    /\ \/ /\ wpc[1] = "l297"
          /\ \E H \in PickHours : hour' = H
          /\ wpc' = <<"l298", 0>>
          /\ UNCHANGED <<minute, wans>>
       \/ /\ wpc[1] = "l298"
          /\ \E M \in Minutes : minute' = M
          /\ wpc' = <<"l299", 0>>
          /\ UNCHANGED <<hour, wans>>
       \/ /\ wpc[1] = "l299"
          /\ wans' = <<hour, minute>>
          /\ wpc' = <<IF visualize THEN "l301" ELSE "l304", 0>>
          /\ UNCHANGED <<hour, minute>>
       \/ /\ wpc[1] = "l301"
          /\ minute' = 0
          /\ wpc' = <<"a280", 0>>
          /\ UNCHANGED <<hour, wans>>
    /\ UNCHANGED <<second, sizeVars, pc, after, pollVars, dialogVars,
                   histVars, modeVars, imgVars, canvas, wacc, upc, ustop,
                   uacc, uruns>>

\* poll on the worker, line 302: a statement of animate(delay=1,
\* stop_hour_minute=hour_minute_answer) before its redraw
WorkerAnimate ==
    /\ wpc[1] \in AnimateStmts
    /\ LET r == animate_stmt(wpc[1], wacc, wans, hour, minute)
       IN  /\ wpc' = <<r.loc, 0>>
           /\ wacc' = r.acc
           /\ hour' = r.hour
           /\ minute' = r.minute
    /\ UNCHANGED <<second, sizeVars, pc, after, pollVars, dialogVars,
                   histVars, modeVars, imgVars, canvas, wans, upc, ustop,
                   uacc, uruns>>

\* redraw called by the worker (lines 281, 288, 304), one group of its Tk
\* calls at a time: the twelve tick marks, after which painthms reads the
\* ClockState; the delete of painthms; the hour hand; the minute hand and
\* the centre circle
WorkerRedraw ==
    /\ wpc[1] \in {"a281", "a288", "l304"}
    /\ UiIdle
    /\ LET hands == painthms(EmptyCanvas, wacc[1], wacc[2], second, FALSE).hands
       IN  CASE wpc[2] = 0 ->
                  /\ canvas' = paintticks(canvas, 12)
                  /\ wacc' = <<hour, minute>>
                  /\ wpc' = <<wpc[1], 1>>
             [] wpc[2] = 1 ->
                  /\ canvas' = [canvas EXCEPT !.hands = <<>>]
                  /\ wpc' = <<wpc[1], 2>>
                  /\ UNCHANGED wacc
             [] wpc[2] = 2 ->
                  /\ canvas' = [canvas EXCEPT !.hands = Append(@, hands[1])]
                  /\ wpc' = <<wpc[1], 3>>
                  /\ UNCHANGED wacc
             [] wpc[2] = 3 ->
                  /\ canvas' =
                        LET c == [canvas EXCEPT
                                     !.hands = Append(@, hands[2])]
                        IN  IF ~showImage THEN paintcircle(c, "centre")
                            ELSE c
                  /\ wpc' = <<AfterRedraw(wpc[1]), 0>>
                  /\ wacc' = 0
    /\ UNCHANGED <<clockVars, sizeVars, pc, after, pollVars, dialogVars,
                   histVars, modeVars, imgVars, wans, upc, ustop, uacc, uruns>>

\* animate on the worker, line 289: root.after, then the return to poll
WorkerAfter ==
    /\ wpc[1] = "a289"
    /\ UiIdle
    /\ after' = after (+) SetToBag({wans})
    /\ wpc' = <<"l305", 0>>
    /\ UNCHANGED <<clockVars, sizeVars, pc, pollVars, dialogVars, histVars,
                   modeVars, imgVars, canvas, wans, wacc, upc, ustop, uacc, uruns>>

\* poll on the worker, lines 305-307: the dialog is made and the worker
\* waits in wait_window
WorkerOpenDialog ==
    /\ wpc[1] = "l305"
    /\ pc = "mainloop"
    /\ upc = "idle"
    /\ title' = correct + wrong + 1
    /\ time_answer' = wans
    /\ e1' = <<>>
    /\ still_going' = TRUE
    /\ correct_answer' = FALSE
    /\ pc' = "dialog"
    /\ wpc' = <<"l307", 0>>
    /\ UNCHANGED <<clockVars, sizeVars, after, correct, wrong, reported,
                   histVars, modeVars, imgVars, canvas, wans, wacc, upc,
                   ustop, uacc, uruns>>

\* poll on the worker, lines 308-313
WorkerTally ==
    /\ wpc[1] = "l308"
    /\ LET t == poll_tally(still_going, correct_answer, correct, wrong)
       IN  /\ correct' = t.correct
           /\ wrong' = t.wrong
           /\ wpc' = <<IF t.brk THEN "l314" ELSE "l297", 0>>
    /\ UNCHANGED <<clockVars, sizeVars, pc, after, title, reported,
                   dialogVars, histVars, modeVars, imgVars, canvas, wans,
                   wacc, upc, ustop, uacc, uruns>>

\* poll on the worker, line 314: the score message box
WorkerShowScore ==
    /\ wpc[1] = "l314"
    /\ pc = "mainloop"
    /\ upc = "idle"
    /\ reported' = <<correct, correct + wrong>>
    /\ pc' = "score"
    /\ wpc' = <<"l315", 0>>
    /\ UNCHANGED <<clockVars, sizeVars, after, correct, wrong, title,
                   dialogVars, histVars, modeVars, imgVars, canvas, wans,
                   wacc, upc, ustop, uacc, uruns>>

\* the UI thread takes a pending root.after callback and enters animate
UiTimer ==
    /\ UiIdle
    /\ uruns < MaxTimerRuns
    /\ uruns' = uruns + 1
    /\ \E stop \in BagToSet(after) :
          /\ after' = after (-) SetToBag({stop})
          /\ ustop' = stop
    /\ upc' = "a280"
    /\ UNCHANGED <<clockVars, sizeVars, pc, pollVars, dialogVars, histVars,
                   modeVars, imgVars, canvas, wpc, wans, wacc, uacc>>

\* a statement of the animate callback on the UI thread before its redraw
UiAnimate ==
    /\ upc \in AnimateStmts
    /\ LET r == animate_stmt(upc, uacc, ustop, hour, minute)
       IN  /\ upc' = r.loc
           /\ uacc' = r.acc
           /\ hour' = r.hour
           /\ minute' = r.minute
    /\ UNCHANGED <<second, sizeVars, pc, after, pollVars, dialogVars,
                   histVars, modeVars, imgVars, canvas, wpc, wans, wacc,
                   ustop, uruns>>

\* the end of the animate callback on the UI thread: redraw and return at
\* the target (line 281), or redraw and root.after (lines 288-289)
UiAnimateEnd ==
    /\ upc \in {"a281", "a288"}
    /\ canvas' = redraw(canvas, hour, minute, second, showImage)
    /\ after' = IF upc = "a288" THEN after (+) SetToBag({ustop}) ELSE after
    /\ upc' = "idle"
    /\ ustop' = NoStop
    /\ UNCHANGED <<clockVars, sizeVars, pc, pollVars, dialogVars, histVars,
                   modeVars, imgVars, wpc, wans, wacc, uacc, uruns>>

\* QuestionWindow.ok on the UI thread, with one of ThreadEntries
ThreadDialogOk ==
    /\ upc = "idle"
    /\ correct + wrong < MaxVisRounds
    /\ \E s \in ThreadEntries : Submit(s)

\* the warning of QuestionWindow.ok is dismissed
ThreadDismissWarning ==
    /\ upc = "idle"
    /\ DismissWarning

\* QuestionWindow.ok, lines 487-488, once the message box of apply() is
\* dismissed: the dialog is destroyed and wait_window returns to the worker
ThreadDismissApply ==
    /\ pc = "apply"
    /\ upc = "idle"
    /\ nAccepted' = nAccepted + 1
    /\ nFlagged' = IF correct_answer THEN nFlagged + 1 ELSE nFlagged
    /\ e1' = <<>>
    /\ pc' = "mainloop"
    /\ wpc' = <<"l308", 0>>
    /\ UNCHANGED <<clockVars, sizeVars, after, pollVars, still_going,
                   correct_answer, time_answer, modeVars, imgVars, canvas,
                   wans, wacc, upc, ustop, uacc, uruns>>

\* QuestionWindow.cancel on the UI thread: wait_window returns to the worker
ThreadDialogCancel ==
    /\ pc = "dialog"
    /\ upc = "idle"
    /\ still_going' = FALSE
    /\ e1' = <<>>
    /\ pc' = "mainloop"
    /\ wpc' = <<"l308", 0>>
    /\ UNCHANGED <<clockVars, sizeVars, after, pollVars, correct_answer,
                   time_answer, histVars, modeVars, imgVars, canvas, wans,
                   wacc, upc, ustop, uacc, uruns>>

\* the score message is dismissed and the worker calls root.destroy()
ThreadDismissScore ==
    /\ pc = "score"
    /\ upc = "idle"
    /\ pc' = "destroyed"
    /\ after' = EmptyBag
    /\ canvas' = EmptyCanvas
    /\ wpc' = <<"done", 0>>
    /\ UNCHANGED <<clockVars, sizeVars, pollVars, dialogVars, histVars,
                   modeVars, imgVars, wans, wacc, upc, ustop, uacc, uruns>>

\* ClockTest.resize on the UI thread
ThreadResize ==
    /\ upc = "idle"
    /\ Resize

NextThread ==
    \/ WorkerSetup
    \/ WorkerAnimate
    \/ WorkerRedraw
    \/ WorkerAfter
    \/ WorkerOpenDialog
    \/ WorkerTally
    \/ WorkerShowScore
    \/ UiTimer
    \/ UiAnimate
    \/ UiAnimateEnd
    \/ ThreadDialogOk
    \/ ThreadDismissWarning
    \/ ThreadDismissApply
    \/ ThreadDialogCancel
    \/ ThreadDismissScore
    \/ ThreadResize

SpecThread == InitThread /\ [][NextThread]_vars

----------------------------------------------------------------------------
(* Properties *)

\* C1: when the poll loop has ended, the score message reports K of N,
\* where N counts the dialogs closed by an accepted submission and K those
\* of them whose correctness flag was set (correct = K, correct + wrong =
\* N); and every dialog is numbered (rounds scored so far) + 1.
TallyIsKofN ==
    /\ reported # <<>> =>
          /\ reported = <<nFlagged, nAccepted>>
          /\ correct = nFlagged
          /\ correct + wrong = nAccepted
    /\ pc \in {"dialog", "warning", "apply"} => title = nAccepted + 1

WitnessTally == pc = "score" /\ reported = <<2, 3>>

\* C2: a cancel sets still_going to false and ends the loop without
\* scoring the round: the counters keep their values, the score message
\* (of those counters) is up, and from then on no dialog opens: the only
\* step of poll left is the destruction of the window.
CancelEndsLoop ==
    [][ /\ DialogCancel =>
            /\ ~still_going'
            /\ correct' = correct /\ wrong' = wrong
            /\ pc' = "score"
            /\ reported' = <<correct, correct + wrong>>
        /\ pc = "score" =>
            /\ pc' \in {"score", "destroyed"}
            /\ UNCHANGED <<pollVars, dialogVars>>
        /\ pc = "destroyed" => pc' = "destroyed" ]_vars

WitnessCancel ==
    pc = "destroyed" /\ ~still_going /\ reported = <<1, 2>> /\ title = 3

\* the grammar of C3: a 1- or 2-digit hour in 0..24, an optional single
\* non-digit separator, a 2-digit minute in 00..59, hour 24 with minute 00
\* only
InGrammar(s) ==
    \E hl \in {1, 2}, sl \in {0, 1} :
        /\ Len(s) = hl + sl + 2
        /\ \A i \in 1..hl : s[i] \in Digit
        /\ sl = 1 => s[hl + 1] \notin Digit
        /\ s[hl + sl + 1] \in Digit
        /\ s[hl + sl + 2] \in Digit
        /\ LET h == IntOf(SubSeq(s, 1, hl))
               m == IntOf(SubSeq(s, hl + sl + 1, hl + sl + 2))
           IN  /\ h <= 24
               /\ m <= 59
               /\ h = 24 => m = 0

\* C3: validate accepts a text exactly when it is in the grammar.
ValidateIsGrammar ==
    pc \in {"apply", "warning"} => (pc = "apply" <=> InGrammar(e1))

\* C4: for an accepted text with parsed hour h and minute m the
\* correctness flag is set exactly when (h mod 12, m) is the expected
\* answer; 12:xx, 0:xx and 24:00 match an expected hour 0, and 15:15
\* matches (3, 15).
FlagIffHourMod12 ==
    pc = "apply" =>
        LET g == re_search(e1)
            h == IntOf(g[1])
            m == IntOf(g[2])
        IN  /\ correct_answer <=> (h % 12 = time_answer[1] /\ m = time_answer[2])
            /\ (h \in {0, 12, 24} /\ m = 0 /\ time_answer = <<0, 0>>)
                  => correct_answer
            /\ (h = 15 /\ m = 15 /\ time_answer = <<3, 15>>) => correct_answer

WitnessFlag ==
    /\ pc = "apply"
    /\ e1 = <<"1", "5", ":", "1", "5">>
    /\ time_answer = <<3, 15>>
    /\ correct_answer

\* C5: an animate callback that is not at its stop target sets minute to
\* minute + 1 when minute < 59 and else minute to 0 and hour to
\* (hour + 1) mod 12, and is scheduled again.
TickAdvances ==
    [][ (AnimateTimer /\ \A stop \in BagToSet(after) : stop # <<hour, minute>>)
            => /\ minute' = IF minute < 59 THEN minute + 1 ELSE 0
               /\ hour' = IF minute < 59 THEN hour ELSE (hour + 1) % 12
               /\ after' = after ]_vars

WitnessTick ==
    demo /\ pc = "mainloop" /\ hour = 0 /\ minute = 0 /\ after # EmptyBag

\* C6: when a round's dialog opens, and when its answer is submitted, the
\* clock shows the round's expected answer.
ClockShowsAnswer ==
    [][ (\/ pc \in {"init", "apply"} /\ pc' = "dialog"
         \/ pc = "dialog" /\ pc' = "apply")
            => <<hour', minute'>> = time_answer' ]_vars

\* C7: in poll mode the animation goes from (H, 0) to (H, M) in M ticks:
\* no tick changes the hour or takes the minute past the expected one, also
\* when a round starts before the animation of the one before has stopped.
AnimationStaysOnTarget ==
    [][ (AnimateTimer /\ ~demo)
            => /\ hour' = hour
               /\ minute' <= time_answer[2] ]_vars

\* C8: the images of the world corners under windowToViewport span a
\* rectangle of the world's aspect ratio, centred in the viewport and
\* inside it.
MapperFits ==
    LET w == T.world
        v == T.viewport
        im == windowToViewport(T, w[1], w[2], w[3], w[4])
        X1 == QMin(im[1][1], im[2][1])
        X2 == IF X1 = im[1][1] THEN im[2][1] ELSE im[1][1]
        Y1 == QMin(im[1][2], im[2][2])
        Y2 == IF Y1 = im[1][2] THEN im[2][2] ELSE im[1][2]
    IN  /\ QMul(QSub(X2, X1), QSub(w[4], w[2]))
              = QMul(QSub(Y2, Y1), QSub(w[3], w[1]))
        /\ QAdd(X1, X2) = QAdd(v[1], v[3])
        /\ QAdd(Y1, Y2) = QAdd(v[2], v[4])
        /\ QLe(v[1], X1) /\ QLe(X2, v[3])
        /\ QLe(v[2], Y1) /\ QLe(Y2, v[4])

\* the three ways of C9 in which a text is malformed
Malformed(s) ==
    LET g == re_search(s)
    IN  \/ g = <<>>
        \/ IntOf(g[1]) > 24
        \/ IntOf(g[1]) = 24 /\ IntOf(g[2]) > 0

ClockInRange ==
    /\ hour \in 0..11
    /\ minute \in 0..59
    /\ second \in 0..59

\* two animations run at once and have carried the clock past an hour
WitnessRange ==
    /\ ~demo
    /\ BagCardinality(after) = 2
    /\ hour = 5
    /\ minute = 59

\* the worker is inside the round setup of poll: it has written hour
\* (line 297) and has not yet made the last write of lines 298-302
WorkerInSetup ==
    wpc[1] \in {"l298", "l299", "l301"} \cup AnimateStmts

\* an animate callback on the UI thread is between its first read of the
\* ClockState and its last write
UiInAnimate == upc \in AnimateStmts \ {"a280"}

\* C11: hour and minute have one writer at a time: with poll on the worker
\* thread and visualize on, in no state is the worker inside its round
\* setup while an animate callback on the UI thread is inside its writes.
SingleWriter == ~(visualize /\ WorkerInSetup /\ UiInAnimate)

\* an angle, kept as a fraction of pi, in degrees
Degrees(a) == QMul(Q(180), a)

\* 90 - per * (whole + part / 60), in degrees
HandDegrees(per, whole, part) ==
    QSub(Q(90), QMul(Q(per), QAdd(Q(whole), Norm(part, 60))))

\* C12: painthms draws the hour hand at 90 - 30 * (hour + minute / 60)
\* degrees and the minute hand at 90 - 6 * (minute + second / 60) degrees,
\* and with easy at 90 - 30 * hour and 90 - 6 * minute; at 3:00 the hour
\* hand is at 0 degrees and at 0:00 at 90 degrees, which is pi / 2.
HandAngles ==
    [][ /\ PaintSmooth =>
            /\ Degrees(canvas'.hands[1].angle) = HandDegrees(30, hour, minute)
            /\ Degrees(canvas'.hands[2].angle) = HandDegrees(6, minute, second)
        /\ PaintEasy =>
            /\ Degrees(canvas'.hands[1].angle) = Q(90 - 30 * hour)
            /\ Degrees(canvas'.hands[2].angle) = Q(90 - 6 * minute)
        /\ (PaintSmooth \/ PaintEasy) =>
            /\ (hour = 3 /\ minute = 0) => canvas'.hands[1].angle = Q(0)
            /\ (hour = 0 /\ minute = 0) => canvas'.hands[1].angle = <<1, 2>>
      ]_vars

\* at 3:30 the hands were drawn without easy: the hour hand has crept
\* half way to 4, to -15 degrees
WitnessHands ==
    /\ hour = 3
    /\ minute = 30
    /\ second = 0
    /\ Len(canvas.hands) = 2
    /\ Degrees(canvas.hands[1].angle) = Q(-15)
    /\ Degrees(canvas.hands[2].angle) = Q(-90)

FullyRedrawn(c, img) ==
    /\ c.background = 1
    /\ c.ticks = 12
    /\ Len(c.hands) = 2
    /\ c.centre = IF img THEN 0 ELSE 1

\* C14: a press of the toggle key either changes nothing (showImage, the
\* colours, the Mapper and the canvas stay as they are), or flips
\* showImage, sets the colours that go with it and redraws the whole
\* canvas; after two presses that flip, showImage and the colours are back.
ToggleFlipsAndRedraws ==
    [][ ToggleImage =>
            \/ UNCHANGED <<showImage, colors, T, pad, canvas>>
            \/ /\ showImage' = ~showImage
               /\ colors' = setColors(showImage')
               /\ colors' # colors
               /\ setColors(~showImage') = colors
               /\ FullyRedrawn(canvas', showImage') ]_vars

\* C15: painthms, called on the canvas of any state with the time of the
\* next one, leaves the background, the tick marks and the centre circle
\* as they are and leaves exactly two hands, the hour hand then the minute
\* hand; and every step that changes the canvas leaves it either empty
\* (all items deleted, or the window destroyed) or with exactly two hands.
TwoHands ==
    [][ LET painted == painthms(canvas, hour', minute', second', FALSE)
        IN  /\ painted.background = canvas.background
            /\ painted.ticks = canvas.ticks
            /\ painted.centre = canvas.centre
            /\ Len(painted.hands) = 2
            /\ painted.hands[1].length = <<7, 10>>
            /\ painted.hands[2].length = <<9, 10>>
            /\ canvas' # canvas /\ canvas' # EmptyCanvas =>
                   canvas'.hands = painted.hands ]_vars

\* the hands were drawn again and again over ticks that were never
\* deleted: the clock has been running for an hour since the last resize
WitnessTwoHands ==
    /\ pc = "mainloop"
    /\ hour = 1
    /\ canvas.ticks = 12 * MaxLayers
    /\ Len(canvas.hands) = 2

\* the three states of an open Quiz Dialog: taking input, behind the
\* warning of a rejected submission, withdrawn behind the message of an
\* accepted one
DialogOpen == {"dialog", "warning", "apply"}

\* C16: an open dialog is closed (poll goes on to the next dialog or to
\* the score) only from "apply", reached only by a submission that validate
\* accepts, or by a cancel while it takes input.  Closed by a cancel, it
\* leaves still_going false and the correctness flag false, and poll ends
\* the loop; closed by an accepted submission, still_going is true and poll
\* scores the round and opens the next dialog.  still_going is false only
\* after a cancel, the correctness flag is true only behind an accepted
\* submission, and only that adds to correct.
DialogLifecycle ==
    [][ /\ (pc \in DialogOpen /\ (title' # title \/ pc' \notin DialogOpen))
            => \/ /\ pc = "dialog" /\ DialogCancel
                  /\ ~still_going' /\ ~correct_answer'
                  /\ pc' = "score"
                  /\ nAccepted' = nAccepted
               \/ /\ pc = "apply" /\ DismissApply
                  /\ still_going
                  /\ pc' = "dialog" /\ title' = title + 1
                  /\ nAccepted' = nAccepted + 1
        /\ (pc # "apply" /\ pc' = "apply")
            => pc = "dialog" /\ validate(e1', time_answer, FALSE).ret
        /\ (pc = "dialog" /\ pc' = "warning")
            => ~validate(e1', time_answer, FALSE).ret /\ UNCHANGED still_going
        /\ ~still_going' => pc' \in {"score", "destroyed"}
        /\ correct_answer' => pc' = "apply"
        /\ correct' # correct
            => pc = "apply" /\ correct_answer /\ correct' = correct + 1 ]_vars

\* a quiz of two accepted answers, one of them right, ended by a cancel
WitnessLifecycle ==
    /\ pc = "score"
    /\ ~still_going
    /\ ~correct_answer
    /\ nAccepted = 2
    /\ nFlagged = 1
    /\ title = 3

\* C17: at most one animate callback is pending at any moment.
SingleChain == BagCardinality(after) <= 1

\* C18: a canvas that has been drawn on holds exactly 12 tick marks, at
\* most one centre circle and at most one background item.
TwelveTicks ==
    canvas # EmptyCanvas =>
        /\ canvas.ticks = 12
        /\ canvas.centre <= 1
        /\ canvas.background <= 1

====
